---- MODULE Spec2Model ----
(***************************************************************************)
(* Model of streamlit_app.py: the XYZ parsers (parse_xyz_string,           *)
(* parse_trajectory_xyz), the xTB orchestrator (run_xtb_optimization,      *)
(* get_trajectory_from_xtb) and the session state driven by the            *)
(* "Run GFN2-xTB Optimization" button.                                     *)
(*                                                                         *)
(* Text is modelled at the level the code works at: a text is a sequence   *)
(* of lines, a line is the sequence of its whitespace-separated tokens     *)
(* (str.split()), and a token is an integer literal, a decimal literal or  *)
(* a word.  Python's indexing (negative indices, IndexError) and the       *)
(* exceptions of int() and float() are modelled explicitly.                *)
(***************************************************************************)
EXTENDS Integers, Sequences, FiniteSets, TLC

(***************************************************************************)
(* Bounds of the model.                                                    *)
(***************************************************************************)
\* most atoms a frame header declares
MaxAtoms == 2
\* most frames in a concatenation of well-formed frames
MaxBlocks == 2
\* most lines of an arbitrary text
MaxLines == 3
\* headers range over -NegDepth .. MaxAtoms
NegDepth == 3
\* distinct serialized structures a user submits
NumTexts == 2

VARIABLES
    frames,       \* the input, as the chunks of lines it is made of
    xyz_string,   \* the input text: the concatenation of frames
    single,       \* outcome of parse_xyz_string(xyz_string)
    lines,        \* parse_trajectory_xyz: lines
    i,            \* parse_trajectory_xyz: the line cursor (0-based)
    structures,   \* parse_trajectory_xyz: structures
    iters,        \* parse_trajectory_xyz: iterations of the while loop so far
    ppc           \* position of the parsing run

pvars == <<frames, xyz_string, single, lines, i, structures, iters, ppc>>

VARIABLES
    optimized_xyz,          \* st.session_state.optimized_xyz
    trajectory_xyz,         \* st.session_state.trajectory_xyz
    optimization_complete,  \* st.session_state.optimization_complete
    page_xyz,       \* the serialized structure on the page, NoUpload without a file
    xtb_in_path,    \* whether an xtb binary is on the execution path
    cache,          \* st.cache_data of run_xtb_optimization, by xyz_content
    cpc,            \* position of the button handler and of the call it makes
    xyz_content,    \* run_xtb_optimization: the argument
    tmpdir,         \* run_xtb_optimization: the scratch directory
    dirs,           \* the scratch directories that exist
    next_dir,       \* names handed out by tempfile so far
    local_opt,      \* run_xtb_optimization: optimized_xyz
    ret,            \* the pair the call returned
    msgs,           \* the st.error messages of the call
    from_cache,     \* whether the call was answered from the cache
    tool,           \* exit status and files of the xtb run that produced ret
    xtb_runs,       \* per input text, how many times subprocess.run was called
    first_ret,      \* per input text, the pair its first request returned
    before          \* the session values when the button was pressed

session == <<optimized_xyz, trajectory_xyz, optimization_complete>>
avars == <<optimized_xyz, trajectory_xyz, optimization_complete, page_xyz, xtb_in_path,
           cache, cpc, xyz_content, tmpdir, dirs, next_dir, local_opt, ret, msgs,
           from_cache, tool, xtb_runs, first_ret, before>>
vars == <<pvars, avars>>

(***************************************************************************)
(* Tokens and lines.                                                       *)
(***************************************************************************)
IntTok(n) == [k |-> "int", v |-> n, s |-> ""]
\* a decimal literal; v is its value in tenths ("0.5" is DecTok(5))
DecTok(t) == [k |-> "dec", v |-> t, s |-> ""]
WordTok(w) == [k |-> "word", v |-> 0, s |-> w]

Blank == << >>
HeaderLine(n) == << IntTok(n) >>
CommentLine == << WordTok("water") >>
AtomH == << WordTok("H"), DecTok(0), IntTok(1), DecTok(5) >>
AtomO == << WordTok("O"), IntTok(0), DecTok(-5), DecTok(10) >>
\* too few tokens
ShortLine == << WordTok("H"), DecTok(5) >>
\* a coordinate that is not a number
BadLine == << WordTok("H"), DecTok(5), WordTok("x"), DecTok(5) >>

AtomLines == {AtomH, AtomO}
Comments == {CommentLine, Blank, HeaderLine(1)}
HeaderLines == {HeaderLine(n) : n \in (0 - NegDepth)..MaxAtoms}
AnyLines == HeaderLines \cup {CommentLine, AtomH, ShortLine, BadLine, Blank}

(***************************************************************************)
(* Python primitives.                                                      *)
(***************************************************************************)
Min(a, b) == IF a < b THEN a ELSE b

\* int(line): the line, stripped, must be one integer literal
IntParses(line) == Len(line) = 1 /\ line[1].k = "int"
IntOf(line) == line[1].v

\* float(token): integer and decimal literals parse, words raise ValueError
FloatParses(tok) == tok.k \in {"int", "dec"}
\* the value in tenths: float("1") = float("1.0")
FloatOf(tok) == IF tok.k = "int" THEN 10 * tok.v ELSE tok.v

\* seq[k] for a Python index k: valid for -len <= k < len
PyIndexOK(seq, k) == (0 - Len(seq)) <= k /\ k < Len(seq)
PyGet(seq, k) == IF k >= 0 THEN seq[k + 1] ELSE seq[Len(seq) + k + 1]

\* atom_data[1:4]
CoordTokens(atom_data) == SubSeq(atom_data, 2, Min(4, Len(atom_data)))
CoordsParse(atom_data) ==
    \A n \in 1..Len(CoordTokens(atom_data)) : FloatParses(CoordTokens(atom_data)[n])
Floats(atom_data) ==
    [n \in 1..Len(CoordTokens(atom_data)) |-> FloatOf(CoordTokens(atom_data)[n])]

RECURSIVE DropLeadingBlank(_)
DropLeadingBlank(text) ==
    IF text # << >> /\ Head(text) = Blank THEN DropLeadingBlank(Tail(text)) ELSE text

RECURSIVE DropTrailingBlank(_)
DropTrailingBlank(text) ==
    IF text # << >> /\ text[Len(text)] = Blank
    THEN DropTrailingBlank(SubSeq(text, 1, Len(text) - 1))
    ELSE text

\* xyz_string.strip().split('\n'): the empty text splits into one empty line
StripSplit(text) ==
    LET s == DropTrailingBlank(DropLeadingBlank(text))
    IN  IF s = << >> THEN << Blank >> ELSE s

(***************************************************************************)
(* parse_xyz_string                                                        *)
(***************************************************************************)
Raised(exc) == [status |-> exc, atoms |-> << >>, coordinates |-> << >>, comment |-> << >>]

RECURSIVE XyzAtomLoop(_, _, _, _, _, _)
XyzAtomLoop(ls, k, stop, atoms, coordinates, comment) ==
    IF k >= stop
    THEN [status |-> "ok", atoms |-> atoms, coordinates |-> coordinates,
          comment |-> comment]
    ELSE IF ~PyIndexOK(ls, k) THEN Raised("IndexError")
    ELSE LET atom_data == PyGet(ls, k)
         IN  IF atom_data = Blank
             THEN XyzAtomLoop(ls, k + 1, stop, atoms, coordinates, comment)
             ELSE IF ~CoordsParse(atom_data) THEN Raised("ValueError")
             ELSE XyzAtomLoop(ls, k + 1, stop,
                              Append(atoms, atom_data[1]),
                              Append(coordinates, Floats(atom_data)), comment)

parse_xyz_string(text) ==
    LET ls == StripSplit(text)
    IN  IF ~IntParses(ls[1]) THEN Raised("ValueError")
        ELSE IF ~PyIndexOK(ls, 1) THEN Raised("IndexError")
        ELSE XyzAtomLoop(ls, 2, IntOf(ls[1]) + 2, << >>, << >>, ls[2])

(***************************************************************************)
(* parse_trajectory_xyz: one iteration of the while loop                   *)
(***************************************************************************)
\* first index of range(i+2, i+2+num_atoms)
BlockFirst(c) == c + 2
\* faulty variant: the cursor lands one line past the next header
NextCursorSkipsHeader(c, num_atoms) == c + num_atoms + 3
\* i += num_atoms + 2
NextCursor(c, num_atoms) == c + num_atoms + 2

TryRaised(exc) == [exc |-> exc, num_atoms |-> 0, atoms |-> << >>, coordinates |-> << >>]

RECURSIVE TrajAtomLoop(_, _, _, _, _, _)
TrajAtomLoop(ls, j, stop, num_atoms, atoms, coordinates) ==
    IF j >= stop
    THEN [exc |-> "none", num_atoms |-> num_atoms, atoms |-> atoms,
          coordinates |-> coordinates]
    ELSE IF ~(j < Len(ls))
    THEN TrajAtomLoop(ls, j + 1, stop, num_atoms, atoms, coordinates)
    ELSE IF ~PyIndexOK(ls, j) THEN TryRaised("IndexError")
    ELSE LET atom_data == PyGet(ls, j)
         IN  IF ~(Len(atom_data) >= 4)
             THEN TrajAtomLoop(ls, j + 1, stop, num_atoms, atoms, coordinates)
             ELSE IF ~CoordsParse(atom_data) THEN TryRaised("ValueError")
             ELSE TrajAtomLoop(ls, j + 1, stop, num_atoms,
                               Append(atoms, atom_data[1]),
                               Append(coordinates, Floats(atom_data)))

\* the body of the try statement, up to (not including) the append and i +=
TryBlock(ls, c) ==
    IF ~PyIndexOK(ls, c) THEN TryRaised("IndexError")
    ELSE IF ~IntParses(PyGet(ls, c)) THEN TryRaised("ValueError")
    ELSE IF ~PyIndexOK(ls, c + 1) THEN TryRaised("IndexError")
    ELSE LET num_atoms == IntOf(PyGet(ls, c))
         IN  TrajAtomLoop(ls, BlockFirst(c), BlockFirst(c) + num_atoms, num_atoms,
                          << >>, << >>)

\* A run whose cursor never repeats a value ends within this many iterations:
\* while the loop runs the cursor lies in -(len + NegDepth - 2) .. len - 1.
IterCap(ls) == 2 * Len(ls) + NegDepth

Pending == [status |-> "pending", atoms |-> << >>, coordinates |-> << >>,
            comment |-> << >>]

\* the caller applies parse_xyz_string to the text
ParseXyzString ==
    /\ ppc = "input"
    /\ single' = parse_xyz_string(xyz_string)
    /\ ppc' = "parsed"
    /\ UNCHANGED <<frames, xyz_string, lines, i, structures, iters>>
    /\ UNCHANGED avars

\* parse_trajectory_xyz is entered: structures = [], lines = ..., i = 0
TrajEnter ==
    /\ ppc = "parsed"
    /\ lines' = StripSplit(xyz_string)
    /\ i' = 0
    /\ structures' = << >>
    /\ iters' = 0
    /\ ppc' = "loop"
    /\ UNCHANGED <<frames, xyz_string, single>>
    /\ UNCHANGED avars

\* an iteration whose try body completes
TrajBlock ==
    /\ ppc = "loop"
    /\ i < Len(lines)
    /\ iters < IterCap(lines)
    /\ iters' = iters + 1
    /\ LET r == TryBlock(lines, i)
       IN  /\ r.exc = "none"
           /\ structures' = IF r.atoms # << >> /\ r.coordinates # << >>
                            THEN Append(structures,
                                        [atoms |-> r.atoms, coordinates |-> r.coordinates])
                            ELSE structures
           /\ i' = NextCursor(i, r.num_atoms)
    /\ UNCHANGED <<frames, xyz_string, single, lines, ppc>>
    /\ UNCHANGED avars

\* an iteration that raises ValueError or IndexError
TrajSkip ==
    /\ ppc = "loop"
    /\ i < Len(lines)
    /\ iters < IterCap(lines)
    /\ iters' = iters + 1
    /\ TryBlock(lines, i).exc # "none"
    /\ i' = i + 1
    /\ UNCHANGED <<frames, xyz_string, single, lines, structures, ppc>>
    /\ UNCHANGED avars

\* the loop condition fails: return structures
TrajReturn ==
    /\ ppc = "loop"
    /\ ~(i < Len(lines))
    /\ ppc' = "done"
    /\ UNCHANGED <<frames, xyz_string, single, lines, i, structures, iters>>
    /\ UNCHANGED avars

ParseNext == ParseXyzString \/ TrajEnter \/ TrajBlock \/ TrajSkip \/ TrajReturn

(***************************************************************************)
(* The optimization step: run_xtb_optimization, get_trajectory_from_xtb    *)
(* and the handler of the "Run GFN2-xTB Optimization" button.              *)
(*                                                                         *)
(* Environment: whether xtb is on the execution path is fixed for the life *)
(* of the process; the exit status of a run and the files it leaves are    *)
(* chosen freely at each run.  tempfile never hands out the same name      *)
(* twice.  One script run at a time (Streamlit reruns are sequential).     *)
(***************************************************************************)
None == "<None>"
Absent == "<absent>"
\* the serialized structures, by number; 0 stands for no uploaded file
NoUpload == 0
Contents == 1..NumTexts
\* executions of the body of run_xtb_optimization explored
MaxRuns == NumTexts + 1
\* what xtbopt.xyz and xtbopt.log may hold when xtb wrote them
OptTexts == {"", "optimized"}
LogTexts == {"", "trajectory"}
ToolError == "xTB is not installed or not in PATH"
TrajError == "Trajectory file not found"

NoTool == [exit |-> "none", opt |-> Absent, log |-> Absent]
Unset == <<"<unset>", "<unset>">>
NoEntry == [hit |-> FALSE, ret |-> <<None, None>>, msgs |-> << >>, tool |-> NoTool]

\* the truth value of a str-or-None
Truthy(v) == v # None /\ v # ""

\* faulty variant: the directory is removed at the end of the try body only
TempDirExitOnSuccessOnly(ds, d) == IF cpc = "opt_read" THEN ds \ {d} ELSE ds
\* leaving the with block removes the directory, however it is left
TempDirExit(ds, d) == ds \ {d}

\* faulty variant: only successful results are kept
CacheStoreSuccessOnly(c, key, r, m, t) ==
    IF Truthy(r[1]) THEN [c EXCEPT ![key] = [hit |-> TRUE, ret |-> r, msgs |-> m, tool |-> t]]
    ELSE c
\* st.cache_data keeps the returned value and the st elements of the call
CacheStore(c, key, r, m, t) ==
    [c EXCEPT ![key] = [hit |-> TRUE, ret |-> r, msgs |-> m, tool |-> t]]

\* except subprocess.CalledProcessError
OnCalledProcessError(m) == [ret |-> <<None, None>>, msgs |-> m]
\* faulty variant: no message
OnFileNotFoundSilent(m) == [ret |-> <<None, None>>, msgs |-> m]
\* except FileNotFoundError
OnFileNotFound(m) == [ret |-> <<None, None>>, msgs |-> Append(m, ToolError)]

\* faulty variant: the missing log is reported as a missing tool
MissingLogAsToolError(log, m) ==
    IF log = Absent THEN [traj |-> None, msgs |-> Append(m, ToolError)]
    ELSE [traj |-> log, msgs |-> m]
\* get_trajectory_from_xtb, given what xtbopt.log holds.  It is memoized by
\* the path of tmpdir; every call passes a new path, so its body always runs.
get_trajectory_from_xtb(log, m) ==
    IF log = Absent THEN [traj |-> None, msgs |-> Append(m, TrajError)]
    ELSE [traj |-> log, msgs |-> m]

\* faulty variants: no test, and a test against None only
StoreAlways(opt) == TRUE
StoreUnlessNone(opt) == opt # None
\* `if optimized_xyz:` in the button handler
ShouldStore(opt) == Truthy(opt)

\* A file is uploaded.
Upload(c) ==
    /\ cpc \in {"idle", "done"}
    /\ page_xyz = NoUpload
    /\ page_xyz' = c
    /\ UNCHANGED <<session, xtb_in_path, cache, cpc, xyz_content, tmpdir, dirs, next_dir,
                   local_opt, ret, msgs, tool, xtb_runs, first_ret, before, from_cache>>
    /\ UNCHANGED pvars

\* The coordinate table is edited: the page holds another serialized text.
Edit(c) ==
    /\ cpc \in {"idle", "done"}
    /\ page_xyz # NoUpload
    /\ c # page_xyz
    /\ page_xyz' = c
    /\ UNCHANGED <<session, xtb_in_path, cache, cpc, xyz_content, tmpdir, dirs, next_dir,
                   local_opt, ret, msgs, tool, xtb_runs, first_ret, before, from_cache>>
    /\ UNCHANGED pvars

\* The uploaded file is removed.
RemoveUpload ==
    /\ cpc \in {"idle", "done"}
    /\ page_xyz # NoUpload
    /\ page_xyz' = NoUpload
    /\ UNCHANGED <<session, xtb_in_path, cache, cpc, xyz_content, tmpdir, dirs, next_dir,
                   local_opt, ret, msgs, tool, xtb_runs, first_ret, before, from_cache>>
    /\ UNCHANGED pvars

\* A new browser session: session state is initialised, the cache stays.
NewSession ==
    /\ cpc \in {"idle", "done"}
    /\ optimized_xyz' = None
    /\ trajectory_xyz' = None
    /\ optimization_complete' = FALSE
    /\ page_xyz' = NoUpload
    /\ cpc' = "idle"
    /\ ret' = <<None, None>>
    /\ msgs' = << >>
    /\ tool' = NoTool
    /\ before' = <<None, None, FALSE>>
    /\ from_cache' = FALSE
    /\ UNCHANGED <<xtb_in_path, cache, xyz_content, tmpdir, dirs, next_dir, local_opt,
                   xtb_runs, first_ret>>
    /\ UNCHANGED pvars

\* The button is pressed: run_xtb_optimization(xyz_string) is called.
PressButton ==
    /\ cpc \in {"idle", "done"}
    /\ page_xyz # NoUpload
    /\ before' = session
    /\ xyz_content' = page_xyz
    /\ ret' = <<None, None>>
    /\ msgs' = << >>
    /\ tool' = NoTool
    /\ cpc' = "called"
    /\ UNCHANGED <<session, page_xyz, xtb_in_path, cache, tmpdir, dirs, next_dir,
                   local_opt, xtb_runs, first_ret, from_cache>>
    /\ UNCHANGED pvars

\* The text was seen before: the cached value is returned, its elements replayed.
CallCached ==
    /\ cpc = "called"
    /\ cache[xyz_content].hit
    /\ ret' = cache[xyz_content].ret
    /\ msgs' = cache[xyz_content].msgs
    /\ tool' = cache[xyz_content].tool
    /\ cpc' = "returned"
    /\ from_cache' = TRUE
    /\ UNCHANGED <<session, page_xyz, xtb_in_path, cache, xyz_content, tmpdir, dirs,
                   next_dir, local_opt, xtb_runs, first_ret, before>>
    /\ UNCHANGED pvars

\* The body runs: the scratch directory is made and input.xyz written.
EnterBody ==
    /\ cpc = "called"
    /\ ~cache[xyz_content].hit
    /\ next_dir < MaxRuns
    /\ next_dir' = next_dir + 1
    /\ tmpdir' = next_dir + 1
    /\ dirs' = dirs \cup {next_dir + 1}
    /\ cpc' = "in_tmpdir"
    /\ from_cache' = FALSE
    /\ UNCHANGED <<session, page_xyz, xtb_in_path, cache, xyz_content, local_opt, ret,
                   msgs, tool, xtb_runs, first_ret, before>>
    /\ UNCHANGED pvars

\* The body returns r with messages m after a run described by t.
BodyReturns(r, m, t) ==
    /\ ret' = r
    /\ msgs' = m
    /\ tool' = t
    /\ dirs' = TempDirExit(dirs, tmpdir)
    /\ cache' = CacheStore(cache, xyz_content, r, m, t)
    /\ first_ret' = IF first_ret[xyz_content] = Unset
                    THEN [first_ret EXCEPT ![xyz_content] = r]
                    ELSE first_ret
    /\ cpc' = "returned"

\* subprocess.run finds no xtb: FileNotFoundError.
XtbNotFound ==
    /\ cpc = "in_tmpdir"
    /\ ~xtb_in_path
    /\ xtb_runs' = [xtb_runs EXCEPT ![xyz_content] = @ + 1]
    /\ BodyReturns(OnFileNotFound(msgs).ret, OnFileNotFound(msgs).msgs,
                   [exit |-> "notfound", opt |-> Absent, log |-> Absent])
    /\ UNCHANGED <<session, page_xyz, xtb_in_path, xyz_content, tmpdir, next_dir,
                   local_opt, before, from_cache>>
    /\ UNCHANGED pvars

\* xtb exits with a non-zero status: CalledProcessError.
XtbExitsNonZero ==
    /\ cpc = "in_tmpdir"
    /\ xtb_in_path
    /\ xtb_runs' = [xtb_runs EXCEPT ![xyz_content] = @ + 1]
    /\ BodyReturns(OnCalledProcessError(msgs).ret, OnCalledProcessError(msgs).msgs,
                   [exit |-> "nonzero", opt |-> Absent, log |-> Absent])
    /\ UNCHANGED <<session, page_xyz, xtb_in_path, xyz_content, tmpdir, next_dir,
                   local_opt, before, from_cache>>
    /\ UNCHANGED pvars

\* xtb exits with status zero, having written (or not) its two files.
XtbExitsZero ==
    /\ cpc = "in_tmpdir"
    /\ xtb_in_path
    /\ xtb_runs' = [xtb_runs EXCEPT ![xyz_content] = @ + 1]
    /\ \E o \in OptTexts \cup {Absent}, l \in LogTexts \cup {Absent} :
           tool' = [exit |-> "zero", opt |-> o, log |-> l]
    /\ cpc' = "ran"
    /\ UNCHANGED <<session, page_xyz, xtb_in_path, cache, xyz_content, tmpdir, dirs,
                   next_dir, local_opt, ret, msgs, first_ret, before, from_cache>>
    /\ UNCHANGED pvars

\* open(xtbopt.xyz) fails: FileNotFoundError, caught by the same handler.
ReadOptMissing ==
    /\ cpc = "ran"
    /\ tool.opt = Absent
    /\ BodyReturns(OnFileNotFound(msgs).ret, OnFileNotFound(msgs).msgs, tool)
    /\ UNCHANGED <<session, page_xyz, xtb_in_path, xyz_content, tmpdir, next_dir,
                   local_opt, xtb_runs, before, from_cache>>
    /\ UNCHANGED pvars

\* optimized_xyz = f.read()
ReadOpt ==
    /\ cpc = "ran"
    /\ tool.opt # Absent
    /\ local_opt' = tool.opt
    /\ cpc' = "opt_read"
    /\ UNCHANGED <<session, page_xyz, xtb_in_path, cache, xyz_content, tmpdir, dirs,
                   next_dir, ret, msgs, tool, xtb_runs, first_ret, before, from_cache>>
    /\ UNCHANGED pvars

\* trajectory_xyz = get_trajectory_from_xtb(tmpdir); return both
ReadTrajectory ==
    /\ cpc = "opt_read"
    /\ LET t == get_trajectory_from_xtb(tool.log, msgs)
       IN  BodyReturns(<<local_opt, t.traj>>, t.msgs, tool)
    /\ UNCHANGED <<session, page_xyz, xtb_in_path, xyz_content, tmpdir, next_dir,
                   local_opt, xtb_runs, before, from_cache>>
    /\ UNCHANGED pvars

\* the handler stores the result and reruns the script
StoreResult ==
    /\ cpc = "returned"
    /\ ShouldStore(ret[1])
    /\ optimized_xyz' = ret[1]
    /\ trajectory_xyz' = ret[2]
    /\ optimization_complete' = TRUE
    /\ cpc' = "done"
    /\ UNCHANGED <<page_xyz, xtb_in_path, cache, xyz_content, tmpdir, dirs, next_dir,
                   local_opt, ret, msgs, tool, xtb_runs, first_ret, before, from_cache>>
    /\ UNCHANGED pvars

\* the handler reports "Optimization failed."
ReportFailure ==
    /\ cpc = "returned"
    /\ ~ShouldStore(ret[1])
    /\ cpc' = "done"
    /\ UNCHANGED <<session, page_xyz, xtb_in_path, cache, xyz_content, tmpdir, dirs,
                   next_dir, local_opt, ret, msgs, tool, xtb_runs, first_ret, before, from_cache>>
    /\ UNCHANGED pvars

AppNext ==
    \/ \E c \in Contents : Upload(c)
    \/ \E c \in Contents : Edit(c)
    \/ RemoveUpload
    \/ NewSession
    \/ PressButton
    \/ CallCached
    \/ EnterBody
    \/ XtbNotFound
    \/ XtbExitsNonZero
    \/ XtbExitsZero
    \/ ReadOptMissing
    \/ ReadOpt
    \/ ReadTrajectory
    \/ StoreResult
    \/ ReportFailure

\* the state after the script's first run: session state initialised
AppStart ==
    /\ optimized_xyz = None
    /\ trajectory_xyz = None
    /\ optimization_complete = FALSE
    /\ page_xyz = NoUpload
    /\ cache = [c \in Contents |-> NoEntry]
    /\ cpc = "idle"
    /\ xyz_content = NoUpload
    /\ tmpdir = 0
    /\ dirs = {}
    /\ next_dir = 0
    /\ local_opt = None
    /\ ret = <<None, None>>
    /\ msgs = << >>
    /\ from_cache = FALSE
    /\ tool = NoTool
    /\ xtb_runs = [c \in Contents |-> 0]
    /\ first_ret = [c \in Contents |-> Unset]
    /\ before = <<None, None, FALSE>>

(***************************************************************************)
(* Inputs.                                                                 *)
(***************************************************************************)
RECURSIVE Flatten(_)
Flatten(chunks) == IF chunks = << >> THEN << >> ELSE Head(chunks) \o Flatten(Tail(chunks))

SeqsUpTo(S, n) == UNION {[1..m -> S] : m \in 0..n}

\* a frame: integer count n, comment line, n atom lines
IsValidFrame(f) ==
    /\ Len(f) >= 2
    /\ IntParses(f[1])
    /\ IntOf(f[1]) >= 0
    /\ Len(f) = IntOf(f[1]) + 2
    /\ \A n \in 3..Len(f) : f[n] \in AtomLines

FramesWith(comments) ==
    {<<HeaderLine(Len(body)), c>> \o body :
        c \in comments, body \in SeqsUpTo(AtomLines, MaxAtoms)}

\* the state before the text is parsed
ParseStart ==
    /\ xyz_string = Flatten(frames)
    /\ single = Pending
    /\ lines = << >>
    /\ i = 0
    /\ structures = << >>
    /\ iters = 0
    /\ ppc = "input"

\* the input is a back-to-back concatenation of at most MaxBlocks frames
InitFrames ==
    /\ \E m \in 0..MaxBlocks : frames \in [1..m -> FramesWith(Comments)]
    /\ ParseStart

\* the input is any text of at most MaxLines lines, alone or after one frame
\* that has atoms
InitText ==
    /\ \E m \in 0..MaxLines : \E t \in [1..m -> AnyLines] :
           \/ frames = <<t>>
           \/ /\ m > 0
              /\ \E f \in FramesWith({CommentLine}) : Len(f) > 2 /\ frames = <<f, t>>
    /\ ParseStart

InitParseFrames == InitFrames /\ AppStart /\ xtb_in_path = TRUE
InitParseText == InitText /\ AppStart /\ xtb_in_path = TRUE

SpecFrames == InitParseFrames /\ [][ParseNext]_vars
SpecText == InitParseText /\ [][ParseNext]_vars

InitApp ==
    /\ frames = << >>
    /\ ParseStart
    /\ AppStart
    /\ xtb_in_path \in BOOLEAN

SpecApp == InitApp /\ [][AppNext]_vars

(***************************************************************************)
(* Claims about the parsers.                                               *)
(***************************************************************************)
FrameAtoms(f) == IntOf(f[1])

\* structure n of the trajectory equals parse_xyz_string of frame n alone
MatchesAlone(n) ==
    LET alone == parse_xyz_string(frames[n])
    IN  /\ alone.status = "ok"
        /\ structures[n].atoms = alone.atoms
        /\ structures[n].coordinates = alone.coordinates

OneStructurePerFrame ==
    /\ Len(structures) = Len(frames)
    /\ \A n \in 1..Len(frames) : MatchesAlone(n)

AllFramesHaveAtoms == \A n \in 1..Len(frames) : FrameAtoms(frames[n]) >= 1

\* C2 (as stated): for the concatenation of k valid frames, parse_trajectory_xyz
\* returns exactly k structures, in file order, the n-th equal to what
\* parse_xyz_string returns for the n-th frame alone.
C2_KFramesKStructures == ppc = "done" => OneStructurePerFrame

\* C2 (amended): for the concatenation of k valid frames that each declare at
\* least one atom, parse_trajectory_xyz returns exactly k structures, in file
\* order, the n-th equal to what parse_xyz_string returns for the n-th frame.
C2_KFramesWithAtoms == (ppc = "done" /\ AllFramesHaveAtoms) => OneStructurePerFrame

C2_Witness ==
    /\ ppc = "done"
    /\ Len(frames) = 2
    /\ AllFramesHaveAtoms
    /\ frames[1] # frames[2]
    /\ Len(structures) = 2

\* a frame followed by a block cut short by the end of the text: its header
\* declares more atoms than the lines that follow its comment
IsTruncatedBlock(t) ==
    /\ Len(t) >= 1
    /\ IntParses(t[1])
    /\ \A n \in 3..Len(t) : t[n] \in AtomLines
    /\ IntOf(t[1]) > Len(t) - 2
    /\ IntOf(t[1]) > 0

FrameThenTruncatedBlock ==
    /\ Len(frames) = 2
    /\ IsValidFrame(frames[1])
    /\ FrameAtoms(frames[1]) >= 1
    /\ IsTruncatedBlock(frames[2])

\* C1: one well-formed block followed by one block whose declared atom count
\* exceeds the remaining lines parses to a list of length 1, whether the
\* trailing block has zero or some atom lines after its comment.
C1_TrailingBlockDropped ==
    (ppc = "done" /\ FrameThenTruncatedBlock) => Len(structures) = 1

\* a line of the body that is not an element followed by three numbers
Malformed(line) == ~(Len(line) >= 4 /\ CoordsParse(line))

RECURSIVE CountMalformed(_)
CountMalformed(body) ==
    IF body = << >> THEN 0
    ELSE (IF Malformed(Head(body)) THEN 1 ELSE 0) + CountMalformed(Tail(body))

\* a single-frame text: header n >= 1, comment, n body lines, each an atom line
\* or a malformed one (too few tokens, or a coordinate that is not a number)
IsSingleFrameText ==
    /\ Len(frames) = 1
    /\ Len(frames[1]) >= 2
    /\ IntParses(frames[1][1])
    /\ FrameAtoms(frames[1]) >= 1
    /\ Len(frames[1]) = FrameAtoms(frames[1]) + 2
    /\ \A n \in 3..Len(frames[1]) : frames[1][n] \in AtomLines \cup {ShortLine, BadLine}

\* C3: parse_xyz_string never aborts on a malformed atom line: for a header
\* that declares n atoms it returns n pairs minus one for each line that is
\* mismatched or fails numeric parsing.
C3_MalformedLinesSkipped ==
    (ppc # "input" /\ IsSingleFrameText) =>
        /\ single.status = "ok"
        /\ Len(single.atoms) = Len(single.coordinates)
        /\ Len(single.atoms) =
               FrameAtoms(frames[1]) - CountMalformed(SubSeq(frames[1], 3, Len(frames[1])))

\* C9: on each iteration of the while loop the cursor i strictly increases and
\* stays non-negative (so the loop ends), also for zero and negative headers.
C9_CursorAdvances ==
    [][(ppc = "loop" /\ iters' = iters + 1) => (i' > i /\ i' >= 0)]_vars

(***************************************************************************)
(* Claims about the optimization step and the session state.               *)
(***************************************************************************)
\* the run behind the returned pair failed in one of the named ways
ToolFailed == tool.exit \in {"notfound", "nonzero"}
OptFileMissing == tool.exit = "zero" /\ tool.opt = Absent
LogFileMissing == tool.exit = "zero" /\ tool.opt # Absent /\ tool.log = Absent

\* C4 (as stated): after the button press, every failure of the optimization
\* step (tool not found, non-zero exit, expected output file missing) leaves
\* optimized_xyz, trajectory_xyz and optimization_complete as they were.
C4_FailureKeepsSession ==
    (cpc = "done" /\ (ToolFailed \/ OptFileMissing \/ LogFileMissing)) => session = before

\* C4 (amended): every failure that yields no optimized structure (tool not
\* found, non-zero exit, optimized-structure file missing or empty) leaves the
\* three session values as they were; when only the trajectory log is missing
\* and the optimized structure is non-empty, the handler stores it, sets
\* trajectory_xyz to None and optimization_complete to True.
C4_NoStructureKeepsSession ==
    /\ (cpc = "done" /\ (ToolFailed \/ OptFileMissing \/ tool.opt = ""))
           => session = before
    /\ (cpc = "done" /\ LogFileMissing /\ tool.opt # "")
           => session = <<tool.opt, None, TRUE>>

C4_Witness ==
    /\ cpc = "done"
    /\ tool.exit = "nonzero"
    /\ before = <<"optimized", "trajectory", TRUE>>
    /\ session = before

\* C5: if the xtb binary is absent from the execution path, the call returns
\* (None, None) and emits exactly one tool-availability error.
C5_ToolAbsent ==
    (cpc = "returned" /\ ~xtb_in_path) => (ret = <<None, None>> /\ msgs = <<ToolError>>)

C5_Witness ==
    /\ cpc = "returned"
    /\ ~xtb_in_path
    /\ ~from_cache
    /\ tool.exit = "notfound"
    /\ msgs = <<ToolError>>

\* C6: exit status zero, optimized-structure file present, trajectory log
\* absent: the call reports the missing-artifact error, not the
\* tool-availability error, and returns the optimized text with None for the
\* trajectory only.
C6_MissingLog ==
    (cpc = "returned" /\ LogFileMissing) =>
        /\ ret = <<tool.opt, None>>
        /\ msgs = <<TrajError>>

C6_Witness ==
    /\ cpc = "returned"
    /\ ~from_cache
    /\ LogFileMissing
    /\ ret = <<"optimized", None>>

\* C7: the external optimizer is started at most once per distinct input
\* text, and a request for a text seen before returns the pair of the first
\* request for it, whatever its outcome was.
C7_Memoized ==
    /\ \A c \in Contents : xtb_runs[c] <= 1
    /\ cpc = "returned" => ret = first_ret[xyz_content]
    /\ (cpc = "returned" /\ from_cache) => xtb_runs[xyz_content] = 1

C7_Witness ==
    /\ cpc = "returned"
    /\ from_cache
    /\ ret = <<None, None>>
    /\ xtb_runs[xyz_content] = 1

\* C8: the scratch directory of a call exists only while the body of the call
\* runs; once the call has returned, on every exit path, no scratch directory
\* exists.
C8_ScratchRemoved ==
    IF cpc \in {"in_tmpdir", "ran", "opt_read"} THEN dirs = {tmpdir} ELSE dirs = {}

C8_Witness ==
    /\ cpc = "returned"
    /\ ~from_cache
    /\ OptFileMissing
    /\ tmpdir = 2
    /\ dirs = {}

\* C10: optimization_complete implies optimized_xyz is a non-empty string,
\* and trajectory_xyz is not None only if optimization_complete.
C10_SessionInvariant ==
    /\ optimization_complete => (optimized_xyz # None /\ optimized_xyz # "")
    /\ trajectory_xyz # None => optimization_complete

C10_Witness ==
    /\ cpc = "done"
    /\ optimization_complete
    /\ trajectory_xyz # None
    /\ ret = <<"", "trajectory">>

====
